---- MODULE Spec2Model ----
(***************************************************************************)
(* A model of basico's model_info module: the entity accessors             *)
(* (add_/get_/set_/remove_ for compartments, species, global parameters,   *)
(* reactions, events and plots) working on the engine's data model, and    *)
(* the translation of expressions between display names and common names   *)
(* (CNs).                                                                  *)
(*                                                                         *)
(* Strings are sequences of one-character strings, so that substring       *)
(* tests, splitting and scanning are computed character by character as    *)
(* the Python code computes them.                                          *)
(***************************************************************************)
EXTENDS Integers, Sequences, FiniteSets, TLC

VARIABLES
    dm,          \* the data model (COPASI.CDataModel) the accessors work on
    last,        \* the last call made: its name, arguments and outcome
    expression,  \* the expression handed to the translator
    spaced,      \* whether the expression's tokens are separated by blanks
    cns,         \* _replace_names_with_cns(expression)
    names,       \* _replace_cns_with_names(cns)
    pc,          \* the position of the translator, or of the reshaper
    time_course, \* the time-course table handed to the reshaper
    ranges,      \* _split_ranges of the compartment names
    grid,        \* the 2-D grid extracted last
    frames       \* what the frames of the animation have shown so far

vars == <<dm, last, expression, spaced, cns, names, pc, time_course, ranges, grid, frames>>

\* the reshaper's own variables
reshaper == <<time_course, ranges, grid, frames>>

----------------------------------------------------------------------------
(* Python's str operations, on sequences of characters.                    *)

\* Python's None
None == <<"None">>

\* s[a:b] of Python for 0 <= a, with 1-based positions a+1 .. b
Slice(s, a, b) == IF b <= a THEN <<>> ELSE SubSeq(s, a + 1, IF b > Len(s) THEN Len(s) ELSE b)

\* s.startswith(p)
StartsWith(s, p) == Len(p) <= Len(s) /\ SubSeq(s, 1, Len(p)) = p

\* s.endswith(p)
EndsWith(s, p) == Len(p) <= Len(s) /\ SubSeq(s, Len(s) - Len(p) + 1, Len(s)) = p

\* p in s
Contains(s, p) == \E i \in 0..(Len(s) - Len(p)) : SubSeq(s, i + 1, i + Len(p)) = p

\* s.replace(ch, rep) for a single character ch
RECURSIVE Replace(_, _, _)
Replace(s, ch, rep) ==
    IF s = <<>> THEN <<>>
    ELSE (IF Head(s) = ch THEN rep ELSE <<Head(s)>>) \o Replace(Tail(s), ch, rep)

\* s.split(): the maximal runs of non-blank characters
RECURSIVE SplitFrom(_, _, _)
SplitFrom(s, i, cur) ==
    IF i > Len(s) THEN (IF cur = <<>> THEN <<>> ELSE <<cur>>)
    ELSE IF s[i] = " "
         THEN (IF cur = <<>> THEN <<>> ELSE <<cur>>) \o SplitFrom(s, i + 1, <<>>)
         ELSE SplitFrom(s, i + 1, Append(cur, s[i]))

Split(s) == SplitFrom(s, 1, <<>>)

\* s.strip()
RECURSIVE LStrip(_)
LStrip(s) == IF s # <<>> /\ Head(s) = " " THEN LStrip(Tail(s)) ELSE s

RECURSIVE RStrip(_)
RStrip(s) == IF s # <<>> /\ s[Len(s)] = " " THEN RStrip(SubSeq(s, 1, Len(s) - 1)) ELSE s

Strip(s) == RStrip(LStrip(s))

\* s.find(ch, pos) with 0-based pos; -1 when there is none
RECURSIVE Find(_, _, _)
Find(s, ch, pos) ==
    IF pos >= Len(s) THEN -1
    ELSE IF s[pos + 1] = ch THEN pos ELSE Find(s, ch, pos + 1)

\* ' '.join(words)
RECURSIVE Join(_)
Join(words) ==
    IF words = <<>> THEN <<>>
    ELSE IF Len(words) = 1 THEN words[1]
    ELSE words[1] \o <<" ">> \o Join(Tail(words))

\* ''.join(words)
RECURSIVE Concat(_)
Concat(words) == IF words = <<>> THEN <<>> ELSE Head(words) \o Concat(Tail(words))

----------------------------------------------------------------------------
(* The engine's data model.  An element is a record; the collections are   *)
(* sequences in the engine's order.  Values (sizes, concentrations,        *)
(* parameter values) are opaque: the accessors only store and report them. *)

\* the model after construction: no elements
EmptyModel ==
    [compartments |-> <<>>, species |-> <<>>, parameters |-> <<>>,
     reactions |-> <<>>, events |-> <<>>, plots |-> <<>>, time_unit |-> "s"]

\* the index of the first element called name, 0 when there is none
FirstIndex(seq, name) ==
    IF \E i \in DOMAIN seq : seq[i].name = name
    THEN CHOOSE i \in DOMAIN seq :
            seq[i].name = name /\ \A j \in 1..(i - 1) : seq[j].name # name
    ELSE 0

RemoveAt(seq, i) == SubSeq(seq, 1, i - 1) \o SubSeq(seq, i + 1, Len(seq))

\* getKey(): the engine's key of an element, unique over all kinds
CompartmentKey(c) == <<"Compartment", c.name>>
MetabKey(s) == <<"Metabolite", s.name, s.compartment>>
ModelValueKey(p) == <<"ModelValue", p.name>>
ReactionKey(r) == <<"Reaction", r.name>>
EventKey(e) == <<"Event", e.name>>

\* kwargs: a record holding the keyword arguments given
NoKwargs == <<>>
Has(kwargs, key) == key \in DOMAIN kwargs

\* what a getter returns: None, or a table with its rows
NoTable == [is_none |-> TRUE, rows |-> <<>>]
Table(rows) == [is_none |-> FALSE, rows |-> rows]

\* what an accessor leaves behind: the model, the exception raised, whether a
\* warning was logged, the value returned
Ret(m, raised, warned, result) ==
    [dm |-> m, raised |-> raised, warned |-> warned, result |-> result]

----------------------------------------------------------------------------
(* Display names and common names.                                         *)

\* CMetab.getObjectDisplayName(): the name, qualified by the compartment when
\* species of that name live in several compartments
MetabDisplayName(m, s) ==
    IF \E i \in DOMAIN m.species :
          m.species[i].name = s.name /\ m.species[i].compartment # s.compartment
    THEN s.name \o <<"{">> \o s.compartment \o <<"}">>
    ELSE s.name

\* CModelValue.getObjectDisplayName()
ModelValueDisplayName(p) == <<"V", "a", "l", "u", "e", "s", "[">> \o p.name \o <<"]">>

\* CCompartment.getObjectDisplayName()
CompartmentDisplayName(c) ==
    <<"C", "o", "m", "p", "a", "r", "t", "m", "e", "n", "t", "s", "[">> \o c.name \o <<"]">>

\* the display name of a reaction's parameter: (reaction).parameter
ParameterDisplayName(r, p) == <<"(">> \o r.name \o <<")", ".">> \o p.name

TimeName == <<"T", "i", "m", "e">>

\* the objects of the model an expression can name
Objects(m) ==
    {<<"Model">>}
    \cup {<<"Compartment", m.compartments[i].name>> : i \in DOMAIN m.compartments}
    \cup {<<"Metabolite", m.species[i].name, m.species[i].compartment>> : i \in DOMAIN m.species}
    \cup {<<"ModelValue", m.parameters[i].name>> : i \in DOMAIN m.parameters}

\* getObjectDisplayName() of an object (of the model: of its value reference)
ObjectDisplayName(m, obj) ==
    CASE obj[1] = "Model" -> TimeName
      [] obj[1] = "Compartment" -> CompartmentDisplayName([name |-> obj[2]])
      [] obj[1] = "Metabolite" -> MetabDisplayName(m, [name |-> obj[2], compartment |-> obj[3]])
      [] obj[1] = "ModelValue" -> ModelValueDisplayName([name |-> obj[2]])

\* getCN() of an object (of the model: of its value reference)
ObjectCN(obj) ==
    CASE obj[1] = "Model" ->
            <<"C", "N", "=", "M", "o", "d", "e", "l", ",", "R", "e", "f", "e", "r",
              "e", "n", "c", "e", "=", "T", "i", "m", "e">>
      [] obj[1] = "Compartment" ->
            <<"C", "N", "=">> \o CompartmentDisplayName([name |-> obj[2]])
      [] obj[1] = "Metabolite" ->
            <<"C", "N", "=">> \o CompartmentDisplayName([name |-> obj[3]]) \o <<",">>
            \o <<"M", "e", "t", "a", "b", "o", "l", "i", "t", "e", "s", "[">> \o obj[2] \o <<"]">>
      [] obj[1] = "ModelValue" ->
            <<"C", "N", "=">> \o ModelValueDisplayName([name |-> obj[2]])

\* dm.findObjectByDisplayName(word)
findObjectByDisplayName(m, word) ==
    IF \E o \in Objects(m) : ObjectDisplayName(m, o) = word
    THEN CHOOSE o \in Objects(m) : ObjectDisplayName(m, o) = word
    ELSE None

\* dm.getObject(COPASI.CCommonName(cn))
getObject(m, cn) ==
    IF \E o \in Objects(m) : ObjectCN(o) = cn
    THEN CHOOSE o \in Objects(m) : ObjectCN(o) = cn
    ELSE None

----------------------------------------------------------------------------
(* The translation of expressions.                                         *)

\* the characters _split_by_cn takes for operators: '/*+-()^%<>!=&|'
OpChars == {"/", "*", "+", "-", "(", ")", "^", "%", "<", ">", "!", "=", "&", "|"}

\* a loop body that looks nothing up
TranslateWordVerbatim(m, w) == <<" ">> \o w

\* the loop body of _replace_names_with_cns for one word
TranslateWord(m, w) ==
    LET word == IF StartsWith(w, <<"{">>) /\ EndsWith(w, <<"}">>)
                THEN Slice(w, 1, Len(w) - 1) ELSE w
        obj == findObjectByDisplayName(m, word)
    IN  IF obj # None THEN <<" ", "<">> \o ObjectCN(obj) \o <<">">>
        ELSE <<" ">> \o word

RECURSIVE TranslateWords(_, _)
TranslateWords(m, words) ==
    IF words = <<>> THEN <<>>
    ELSE TranslateWord(m, Head(words)) \o TranslateWords(m, Tail(words))

\* the words _replace_names_with_cns looks up
WordsOf(e) == Split(Replace(Replace(e, "{", <<" ", "{">>), "}", <<"}", " ">>))

_replace_names_with_cns(m, e) == Strip(TranslateWords(m, WordsOf(e)))

\* what stands for a scan that never ends
Diverges == <<<<"#", "d", "i", "v", "e", "r", "g", "e", "s">>>>

RECURSIVE SplitByCnFrom(_, _, _, _)
SplitByCnFrom(e, pos, current, result) ==
    IF pos >= Len(e)
    THEN (IF current # <<>> THEN Append(result, current) ELSE result)
    ELSE
      LET num_chars == Len(e)
          has_more == pos + 4 < num_chars
          cur_char == e[pos + 1]
          next_3 == Slice(e, pos, pos + 4)
      IN  IF cur_char = "<" /\ has_more /\ StartsWith(next_3, <<"<", "C", "N", "=">>)
          THEN LET end == Find(e, ">", pos)
               IN  IF end = -1
                   THEN Diverges   \* pos = end + 1 = 0: the scan starts over, for ever
                   ELSE SplitByCnFrom(e, end + 1, <<>>,
                                      Append(result, Slice(e, pos + 1, end)))
          ELSE IF cur_char \in OpChars
          THEN LET flushed == IF current # <<>> THEN Append(result, current) ELSE result
                   two == pos + 1 < num_chars /\ e[pos + 2] = "="
               IN  SplitByCnFrom(e, IF two THEN pos + 2 ELSE pos + 1, <<>>,
                                 Append(flushed, IF two THEN <<cur_char, "=">> ELSE <<cur_char>>))
          ELSE IF cur_char # " "
          THEN SplitByCnFrom(e, pos + 1, Append(current, cur_char), result)
          ELSE SplitByCnFrom(e, pos + 1, current, result)

_split_by_cn(e) == SplitByCnFrom(e, 0, <<>>, <<>>)

\* the first index i >= from (0-based) of a word ending in '>', -1 when none
RECURSIVE ClosingWord(_, _)
ClosingWord(words, from) ==
    IF from >= Len(words) THEN -1
    ELSE IF EndsWith(words[from + 1], <<">">>) THEN from
    ELSE ClosingWord(words, from + 1)

IndexError == <<"#", "I", "n", "d", "e", "x", "E", "r", "r", "o", "r">>

\* the name that stands for cn, '' when the model has no such object
NameOfCN(m, cn) ==
    LET obj == getObject(m, cn)
    IN  IF obj # None THEN ObjectDisplayName(m, obj) ELSE <<>>

\* the loop of _replace_cns_with_names from word i (0-based) on
RECURSIVE NamesLoop(_, _, _, _)
NamesLoop(m, words, i, skip) ==
    IF i >= Len(words) THEN <<>>
    ELSE IF i < skip THEN NamesLoop(m, words, i + 1, skip)
    ELSE
      LET word == words[i + 1]
      IN  IF StartsWith(word, <<"<", "C", "N">>) /\ EndsWith(word, <<">">>)
          THEN <<" ">> \o NameOfCN(m, Slice(word, 1, Len(word) - 1))
               \o NamesLoop(m, words, i + 1, skip)
          ELSE IF StartsWith(word, <<"<", "C", "N">>)
          THEN LET close == ClosingWord(words, i + 1)
               IN  IF close = -1 THEN IndexError
                   ELSE LET cn == Join(<<Slice(word, 1, Len(word))>>
                                       \o SubSeq(words, i + 2, close)
                                       \o <<Slice(words[close + 1], 0, Len(words[close + 1]) - 1)>>)
                        IN  <<" ">> \o NameOfCN(m, cn) \o NamesLoop(m, words, i + 1, close + 1)
          ELSE IF StartsWith(word, <<"C", "N", "=">>)
          THEN <<" ">> \o NameOfCN(m, word) \o NamesLoop(m, words, i + 1, skip)
          ELSE <<" ">> \o word \o NamesLoop(m, words, i + 1, skip)

_replace_cns_with_names(m, e) ==
    IF e = <<>> THEN e
    ELSE Strip(NamesLoop(m, _split_by_cn(e), 0, -1))

----------------------------------------------------------------------------
(* The engine's operations the accessors call.  A create operation         *)
(* answers [ok |-> FALSE] for the engine's None.                           *)

Created(m) == [ok |-> TRUE, dm |-> m]
NotCreated(m) == [ok |-> FALSE, dm |-> m]

\* model.createCompartment(name, initial_size)
createCompartment(m, name, initial_size) ==
    IF FirstIndex(m.compartments, name) # 0 THEN NotCreated(m)
    ELSE Created([m EXCEPT !.compartments =
                     Append(@, [name |-> name, initial_size |-> initial_size])])

\* model.createMetabolite(name, compartment_name, initial_concentration)
createMetabolite(m, name, compartment_name, initial_concentration) ==
    IF \/ FirstIndex(m.compartments, compartment_name) = 0
       \/ \E i \in DOMAIN m.species :
             m.species[i].name = name /\ m.species[i].compartment = compartment_name
    THEN NotCreated(m)
    ELSE Created([m EXCEPT !.species =
                     Append(@, [name |-> name, compartment |-> compartment_name,
                                initial_concentration |-> initial_concentration,
                                type |-> <<"r", "e", "a", "c", "t", "i", "o", "n", "s">>])])

\* model.createModelValue(name, initial_value)
createModelValue(m, name, initial_value) ==
    IF FirstIndex(m.parameters, name) # 0 THEN NotCreated(m)
    ELSE Created([m EXCEPT !.parameters =
                     Append(@, [name |-> name, initial_value |-> initial_value])])

\* model.createEvent(name)
createEvent(m, name) ==
    IF FirstIndex(m.events, name) # 0 THEN NotCreated(m)
    ELSE Created([m EXCEPT !.events =
                     Append(@, [name |-> name, trigger |-> <<>>, assignments |-> <<>>])])

\* model.createReaction(name)
createReaction(m, name) ==
    IF FirstIndex(m.reactions, name) # 0 THEN NotCreated(m)
    ELSE Created([m EXCEPT !.reactions =
                     Append(@, [name |-> name, scheme |-> <<>>, metabs |-> <<>>,
                                params |-> <<>>])])

\* dm.getPlotDefinitionList().createPlotSpec(name, COPASI.CPlotItem.plot2d)
createPlotSpec(m, name) ==
    IF FirstIndex(m.plots, name) # 0 THEN NotCreated(m)
    ELSE Created([m EXCEPT !.plots =
                     Append(@, [name |-> name, active |-> TRUE, log_x |-> FALSE,
                                log_y |-> FALSE, tasks |-> "", curves |-> <<>>])])

\* the reactions left when the elements with the keys in gone are deleted: the
\* engine deletes a reaction with a species of its scheme or with a global
\* parameter one of its parameters is mapped to
ReactionsWithout(m, gone) ==
    SelectSeq(m.reactions,
              LAMBDA r : /\ \A i \in DOMAIN r.metabs : r.metabs[i] \notin gone
                         /\ \A j \in DOMAIN r.params :
                               <<"ModelValue", r.params[j].mapped_to>> \notin gone)

\* model.removeMetabolite(key)
removeMetabolite(m, key) ==
    [m EXCEPT !.species = SelectSeq(@, LAMBDA s : MetabKey(s) # key),
              !.reactions = ReactionsWithout(m, {key})]

\* model.removeModelValue(key)
removeModelValue(m, key) ==
    [m EXCEPT !.parameters = SelectSeq(@, LAMBDA p : ModelValueKey(p) # key),
              !.reactions = ReactionsWithout(m, {key})]

\* model.removeCompartment(key): the compartment and everything included
removeCompartment(m, key) ==
    LET inside == {MetabKey(m.species[i]) : i \in
                      {j \in DOMAIN m.species :
                          <<"Compartment", m.species[j].compartment>> = key}}
    IN  [m EXCEPT !.compartments = SelectSeq(@, LAMBDA c : CompartmentKey(c) # key),
                  !.species = SelectSeq(@, LAMBDA s : MetabKey(s) \notin inside),
                  !.reactions = ReactionsWithout(m, inside)]

\* model.removeEvent(key): the event with that key, if the key is an event's
removeEvent(m, key) ==
    [m EXCEPT !.events = SelectSeq(@, LAMBDA e : EventKey(e) # key)]

\* the species names of a reaction scheme
SchemeSpecies(scheme) ==
    SelectSeq(Split(scheme), LAMBDA w : w \notin {<<"-", ">">>, <<"=">>, <<"+">>})

DefaultCompartment == <<"c", "o", "m", "p", "a", "r", "t", "m", "e", "n", "t">>

\* the engine's creation of the species a scheme names and the model lacks: in
\* the first compartment, a compartment called 'compartment' when there is none
RECURSIVE createNonExistingMetabs(_, _)
createNonExistingMetabs(m, species_names) ==
    IF species_names = <<>> THEN m
    ELSE IF FirstIndex(m.species, Head(species_names)) # 0
         THEN createNonExistingMetabs(m, Tail(species_names))
         ELSE LET m1 == IF m.compartments = <<>>
                        THEN createCompartment(m, DefaultCompartment, "1.0").dm ELSE m
              IN  createNonExistingMetabs(
                      createMetabolite(m1, Head(species_names),
                                       m1.compartments[1].name, "1.0").dm,
                      Tail(species_names))

\* reaction.setReactionScheme(scheme); reaction.compile(): mass action with the
\* local parameter k1
setReactionScheme(m, i, scheme) ==
    LET m1 == createNonExistingMetabs(m, SchemeSpecies(scheme))
        used == [j \in DOMAIN SchemeSpecies(scheme) |->
                    MetabKey(m1.species[FirstIndex(m1.species, SchemeSpecies(scheme)[j])])]
    IN  [m1 EXCEPT !.reactions[i] =
            [@ EXCEPT !.scheme = scheme, !.metabs = used,
                      !.params = <<[name |-> <<"k", "1">>, value |-> "0.1",
                                    mapped_to |-> None]>>]]

----------------------------------------------------------------------------
(* The accessors of model_info.                                            *)

\* Python's truth of a name argument: neither None nor ''
Truthy(name) == name # None /\ name # <<>>

\* type(name) is str: the names given here are None or strings
IsStr(name) == name # None

\* isinstance(name, Iterable): a str is an Iterable too
IsIterable(name) == name # None

\* the three tests of a setter's loop that skip an element, for an element
\* called current_name and displayed as display_name; a setter that looks at
\* the object name only passes it for both
SkippedBySubstring(name, kwargs, current_name) ==
    \/ Has(kwargs, "name") /\ ~Contains(current_name, kwargs.name)
    \/ Truthy(name) /\ IsStr(name) /\ ~Contains(current_name, name)
    \/ Truthy(name) /\ IsIterable(name) /\ ~Contains(name, current_name)

\* set_compartment(name, **kwargs)
set_compartment(m, name, kwargs) ==
    LET set(c) ==
            IF SkippedBySubstring(name, kwargs, c.name) THEN c
            ELSE LET c1 == IF Has(kwargs, "initial_value")
                           THEN [c EXCEPT !.initial_size = kwargs.initial_value] ELSE c
                 IN  IF Has(kwargs, "initial_size")
                     THEN [c1 EXCEPT !.initial_size = kwargs.initial_size] ELSE c1
    IN  Ret([m EXCEPT !.compartments = [i \in DOMAIN @ |-> set(@[i])]], "", FALSE, None)

\* set_parameters(name, **kwargs)
set_parameters(m, name, kwargs) ==
    LET skipped(p) ==
            LET current_name == p.name
                display_name == ModelValueDisplayName(p)
            IN  \/ /\ Has(kwargs, "name")
                   /\ ~Contains(current_name, kwargs.name) /\ kwargs.name # display_name
                \/ /\ Truthy(name) /\ IsStr(name)
                   /\ ~Contains(current_name, name) /\ name # display_name
                \/ /\ Truthy(name) /\ IsIterable(name)
                   /\ ~Contains(name, current_name) /\ ~Contains(name, display_name)
        set(p) ==
            IF skipped(p) THEN p
            ELSE IF Has(kwargs, "initial_value")
                 THEN [p EXCEPT !.initial_value = kwargs.initial_value] ELSE p
    IN  Ret([m EXCEPT !.parameters = [i \in DOMAIN @ |-> set(@[i])]], "", FALSE, None)

\* set_species(name, **kwargs)
set_species(m, name, kwargs) ==
    LET skipped(s) ==
            LET current_name == s.name
                display_name == MetabDisplayName(m, s)
            IN  \/ /\ Has(kwargs, "name")
                   /\ ~Contains(current_name, kwargs.name)
                   /\ ~Contains(display_name, kwargs.name)
                \/ /\ Truthy(name) /\ IsStr(name)
                   /\ ~Contains(current_name, name) /\ ~Contains(display_name, name)
                \/ /\ Truthy(name) /\ IsIterable(name)
                   /\ ~Contains(name, current_name) /\ ~Contains(name, display_name)
        set(s) ==
            IF skipped(s) THEN s
            ELSE IF Has(kwargs, "initial_concentration")
                 THEN [s EXCEPT !.initial_concentration = kwargs.initial_concentration]
                 ELSE s
    IN  Ret([m EXCEPT !.species = [i \in DOMAIN @ |-> set(@[i])]], "", FALSE, None)

\* the global parameter a reaction parameter is mapped to: its index in
\* m.parameters, 0 for a local parameter
MappedValue(m, p) ==
    IF p.mapped_to = None THEN 0 ELSE FirstIndex(m.parameters, p.mapped_to)

\* a selection that forgets the reaction_name filter
ReactionParameterSelectedInAnyReaction(r, p, name, kwargs) ==
    LET current_name == ParameterDisplayName(r, p)
    IN  /\ ~(Has(kwargs, "name") /\ ~Contains(current_name, kwargs.name))
        /\ ~(Truthy(name) /\ IsStr(name) /\ ~Contains(current_name, name))
        /\ ~(Truthy(name) /\ IsIterable(name) /\ ~Contains(name, current_name))

\* whether set_reaction_parameters reaches parameter p of reaction r
ReactionParameterSelected(r, p, name, kwargs) ==
    LET current_name == ParameterDisplayName(r, p)
    IN  /\ ~(Has(kwargs, "reaction_name") /\ kwargs.reaction_name # r.name)
        /\ ~(Has(kwargs, "name") /\ ~Contains(current_name, kwargs.name))
        /\ ~(Truthy(name) /\ IsStr(name) /\ ~Contains(current_name, name))
        /\ ~(Truthy(name) /\ IsIterable(name) /\ ~Contains(name, current_name))

\* set_reaction_parameters(name, **kwargs)
set_reaction_parameters(m, name, kwargs) ==
    LET selected(r, p) == ReactionParameterSelected(r, p, name, kwargs) /\ Has(kwargs, "value")
        \* the global parameters the selected parameters are mapped to
        globals == UNION {{MappedValue(m, m.reactions[i].params[j]) :
                              j \in {k \in DOMAIN m.reactions[i].params :
                                        selected(m.reactions[i], m.reactions[i].params[k])}} :
                          i \in DOMAIN m.reactions}
        setp(r, p) ==
            IF selected(r, p) /\ MappedValue(m, p) = 0
            THEN [p EXCEPT !.value = kwargs.value] ELSE p
        setr(r) == [r EXCEPT !.params = [j \in DOMAIN @ |-> setp(r, @[j])]]
        setv(i) ==
            IF i \in globals
            THEN [m.parameters[i] EXCEPT !.initial_value = kwargs.value]
            ELSE m.parameters[i]
    IN  Ret([m EXCEPT !.reactions = [i \in DOMAIN @ |-> setr(@[i])],
                      !.parameters = [i \in DOMAIN @ |-> setv(i)]], "", FALSE, None)

\* get_reaction_parameters(name, **kwargs): the rows of the table, None when
\* there is none
get_reaction_parameters(m, name, kwargs) ==
    LET row(r, p) ==
            LET mv == MappedValue(m, p)
            IN  [name |-> ParameterDisplayName(r, p),
                 value |-> IF mv # 0 THEN m.parameters[mv].initial_value ELSE p.value,
                 reaction |-> r.name,
                 type |-> IF mv # 0 THEN "global" ELSE "local",
                 mapped_to |-> IF mv # 0 THEN m.parameters[mv].name ELSE <<>>]
        kept(r, p) ==
            /\ ~(Has(kwargs, "reaction_name") /\ kwargs.reaction_name # r.name)
            /\ ~(Has(kwargs, "name") /\ ~Contains(row(r, p).name, kwargs.name))
            /\ ~(Truthy(name) /\ ~Contains(row(r, p).name, name))
            /\ ~(Has(kwargs, "type") /\ kwargs.type # row(r, p).type)
        rows(r) == [j \in DOMAIN SelectSeq(r.params, LAMBDA p : kept(r, p)) |->
                       row(r, SelectSeq(r.params, LAMBDA p : kept(r, p))[j])]
        RECURSIVE data(_)
        data(i) == IF i > Len(m.reactions) THEN <<>>
                   ELSE rows(m.reactions[i]) \o data(i + 1)
    IN  Ret(m, "", FALSE, IF data(1) = <<>> THEN NoTable ELSE Table(data(1)))

\* set_reaction(name, **kwargs), from reaction i on
RECURSIVE set_reaction_from(_, _, _, _)
set_reaction_from(m, i, name, kwargs) ==
    IF i > Len(m.reactions) THEN m
    ELSE IF SkippedBySubstring(name, kwargs, m.reactions[i].name)
         THEN set_reaction_from(m, i + 1, name, kwargs)
         ELSE set_reaction_from(IF Has(kwargs, "scheme")
                                THEN setReactionScheme(m, i, kwargs.scheme) ELSE m,
                                i + 1, name, kwargs)

set_reaction(m, name, kwargs) == Ret(set_reaction_from(m, 1, name, kwargs), "", FALSE, None)

\* add_compartment(name, initial_size, **kwargs)
add_compartment(m, name, initial_size, kwargs) ==
    LET compartment == createCompartment(m, name, initial_size)
    IN  IF ~compartment.ok THEN Ret(m, "ValueError", FALSE, None)
        ELSE Ret(set_compartment(compartment.dm, name, kwargs).dm, "", FALSE, name)

\* an add_species that takes the compartment added last for the default
add_species_to_last_compartment(m, name, compartment_name, initial_concentration, kwargs) ==
    LET m1 == IF compartment_name = <<>> /\ m.compartments = <<>>
              THEN createCompartment(m, DefaultCompartment, "1.0").dm ELSE m
        compartment == IF compartment_name = <<>>
                       THEN m1.compartments[Len(m1.compartments)].name ELSE compartment_name
        species == createMetabolite(m1, name, compartment, initial_concentration)
    IN  IF ~species.ok THEN Ret(m1, "ValueError", FALSE, None)
        ELSE Ret(set_species(species.dm, name, kwargs).dm, "", FALSE, name)

\* add_species(name, compartment_name, initial_concentration, **kwargs)
add_species(m, name, compartment_name, initial_concentration, kwargs) ==
    LET m1 == IF compartment_name = <<>> /\ m.compartments = <<>>
              THEN createCompartment(m, DefaultCompartment, "1.0").dm ELSE m
        compartment == IF compartment_name = <<>>
                       THEN m1.compartments[1].name ELSE compartment_name
        species == createMetabolite(m1, name, compartment, initial_concentration)
    IN  IF ~species.ok THEN Ret(m1, "ValueError", FALSE, None)
        ELSE Ret(set_species(species.dm, name, kwargs).dm, "", FALSE, name)

\* add_parameter(name, initial_value, **kwargs)
add_parameter(m, name, initial_value, kwargs) ==
    LET parameter == createModelValue(m, name, initial_value)
    IN  IF ~parameter.ok THEN Ret(m, "ValueError", FALSE, None)
        ELSE Ret(set_parameters(parameter.dm, name, kwargs).dm, "", FALSE, name)

\* the event assignments add_event creates: one per entry, left empty when
\* its target does not resolve
EventAssignments(m, assignments) ==
    [j \in DOMAIN assignments |->
        LET target == findObjectByDisplayName(m, assignments[j][1])
        IN  IF target = None THEN [target |-> <<>>, expression |-> <<>>]
            ELSE [target |-> ObjectCN(target),
                  expression |-> _replace_names_with_cns(m, assignments[j][2])]]

\* add_event(name, trigger, assignments, **kwargs)
add_event(m, name, trigger, assignments) ==
    LET event == createEvent(m, name)
        i == Len(event.dm.events)
    IN  IF ~event.ok THEN Ret(m, "ValueError", FALSE, None)
        ELSE Ret([event.dm EXCEPT
                     !.events[i].trigger = _replace_names_with_cns(event.dm, trigger),
                     !.events[i].assignments = EventAssignments(event.dm, assignments)],
                 "", \E j \in DOMAIN assignments :
                        findObjectByDisplayName(m, assignments[j][1]) = None,
                 name)

\* an add_reaction that configures the reaction of that name when there is one
add_reaction_or_update(m, name, scheme, kwargs) ==
    Ret(set_reaction(createReaction(m, name).dm, name,
                     [k \in DOMAIN kwargs \cup {"scheme"} |->
                         IF k = "scheme" THEN scheme ELSE kwargs[k]]).dm,
        "", FALSE, name)

\* add_reaction(name, scheme, **kwargs)
add_reaction(m, name, scheme, kwargs) ==
    LET reaction == createReaction(m, name)
    IN  IF ~reaction.ok THEN Ret(m, "ValueError", FALSE, None)
        ELSE Ret(set_reaction(reaction.dm, name,
                              [k \in DOMAIN kwargs \cup {"scheme"} |->
                                  IF k = "scheme" THEN scheme ELSE kwargs[k]]).dm,
                 "", FALSE, name)

\* add_plot(name, **kwargs): the plot with set_plot_dict's defaults
add_plot(m, name, kwargs) ==
    LET plot_spec == createPlotSpec(m, name)
    IN  IF ~plot_spec.ok THEN Ret(m, "ValueError", FALSE, None)
        ELSE Ret(plot_spec.dm, "", FALSE, name)

\* 'curve_{0}'.format(n)
Digits == <<"0", "1", "2", "3", "4", "5", "6", "7", "8", "9">>
DefaultCurveName(n) == <<"c", "u", "r", "v", "e", "_", Digits[n + 1]>>

\* __curve_type_to_string(__curve_type_to_int(curve['type'])), 'curve2d' without one
CurveType(curve) ==
    IF Has(curve, "type") /\ curve.type \in {"histoItem1d", "bandedGraph", "spectogram"}
    THEN curve.type ELSE "curve2d"

\* plot_spec.createItem(name, curve_type): the engine keeps the names of a
\* plot's items unique and answers None for a name that is taken
createItem(items, name, curve_type) ==
    IF FirstIndex(items, name) # 0 THEN [ok |-> FALSE, items |-> items]
    ELSE [ok |-> TRUE,
          items |-> Append(items, [name |-> name, type |-> curve_type, channels |-> <<>>])]

\* the channels of a curve that resolve, as CNs
ChannelCNs(m, curve) ==
    IF ~Has(curve, "channels") THEN <<>>
    ELSE LET found == SelectSeq(curve.channels,
                                LAMBDA ch : findObjectByDisplayName(m, ch) # None)
         IN  [k \in DOMAIN found |-> ObjectCN(findObjectByDisplayName(m, found[k]))]

\* whether a channel of the curve does not resolve
ChannelSkipped(m, curve) ==
    Has(curve, "channels") /\ Len(ChannelCNs(m, curve)) < Len(curve.channels)

\* the loop of set_plot_curves from entry j on, over the items made so far
RECURSIVE CurvesFrom(_, _, _, _, _)
CurvesFrom(m, curves, j, items, warned) ==
    IF j > Len(curves) THEN [items |-> items, raised |-> "", warned |-> warned]
    ELSE LET curve == curves[j]
             name == IF Has(curve, "name") THEN curve.name ELSE DefaultCurveName(Len(items))
             plot_item == createItem(items, name, CurveType(curve))
         IN  IF ~plot_item.ok
             THEN [items |-> items, raised |-> "AssertionError", warned |-> warned]
             ELSE CurvesFrom(m, curves, j + 1,
                             [plot_item.items EXCEPT ![Len(plot_item.items)].channels =
                                                        ChannelCNs(m, curve)],
                             warned \/ ChannelSkipped(m, curve))

\* a set_plot_curves that adds to the curves the plot has
set_plot_curves_appending(m, plot_spec, curves) ==
    LET i == FirstIndex(m.plots, plot_spec)
    IN  IF i = 0 THEN Ret(m, "", TRUE, None)
        ELSE LET made == CurvesFrom(m, curves, 1, m.plots[i].curves, FALSE)
             IN  Ret([m EXCEPT !.plots[i].curves = made.items],
                     made.raised, made.warned, None)

\* set_plot_curves(plot_spec, curves) for a plot given by its name; a plot
\* that is not there is logged
set_plot_curves(m, plot_spec, curves) ==
    LET i == FirstIndex(m.plots, plot_spec)
    IN  IF i = 0 THEN Ret(m, "", TRUE, None)
        ELSE IF curves = <<>>
        THEN Ret([m EXCEPT !.plots[i].curves = <<>>], "", FALSE, None)
        ELSE LET made == CurvesFrom(m, curves, 1, <<>>, FALSE)
             IN  Ret([m EXCEPT !.plots[i].curves = made.items],
                     made.raised, made.warned, None)

\* a remove_species that deletes every species of that name
remove_species_everywhere(m, name) ==
    IF FirstIndex(m.species, name) = 0 THEN Ret(m, "", TRUE, None)
    ELSE Ret([m EXCEPT !.species = SelectSeq(@, LAMBDA s : s.name # name),
                       !.reactions = ReactionsWithout(
                                        m, {MetabKey(m.species[i]) :
                                               i \in {j \in DOMAIN m.species :
                                                         m.species[j].name = name}})],
             "", FALSE, None)

\* remove_species(name)
remove_species(m, name) ==
    LET metab == FirstIndex(m.species, name)
    IN  IF metab = 0 THEN Ret(m, "", TRUE, None)
        ELSE Ret(removeMetabolite(m, MetabKey(m.species[metab])), "", FALSE, None)

\* remove_parameter(name)
remove_parameter(m, name) ==
    LET mv == FirstIndex(m.parameters, name)
    IN  IF mv = 0 THEN Ret(m, "", TRUE, None)
        ELSE Ret(removeModelValue(m, ModelValueKey(m.parameters[mv])), "", FALSE, None)

\* remove_compartment(name)
remove_compartment(m, name) ==
    LET comp == FirstIndex(m.compartments, name)
    IN  IF comp = 0 THEN Ret(m, "", TRUE, None)
        ELSE Ret(removeCompartment(m, CompartmentKey(m.compartments[comp])), "", FALSE, None)

\* remove_event(name)
remove_event(m, name) ==
    LET ev == FirstIndex(m.events, name)
    IN  IF ev = 0 THEN Ret(m, "", TRUE, None)
        ELSE Ret(removeEvent(m, EventKey(m.events[ev])), "", FALSE, None)

\* a remove_plot that deletes the last plot it looked at when none matches
remove_plot_last_seen(m, name) ==
    LET i == FirstIndex(m.plots, name)
    IN  IF i = 0
        THEN Ret([m EXCEPT !.plots = IF @ = <<>> THEN @ ELSE RemoveAt(@, Len(@))],
                 "", m.plots = <<>>, None)
        ELSE Ret([m EXCEPT !.plots = RemoveAt(@, i)], "", FALSE, None)

\* remove_plot(name)
remove_plot(m, name) ==
    LET i == FirstIndex(m.plots, name)
    IN  IF i = 0 THEN Ret(m, "", TRUE, None)
        ELSE Ret([m EXCEPT !.plots = RemoveAt(@, i)], "", FALSE, None)

\* remove_reaction(name): the reaction's key goes to model.removeEvent
remove_reaction(m, name) ==
    LET reaction == FirstIndex(m.reactions, name)
    IN  IF reaction = 0 THEN Ret(m, "", TRUE, None)
        ELSE Ret(removeEvent(m, ReactionKey(m.reactions[reaction])), "", FALSE, None)

\* a get_species without the test on names given as a collection, so that a
\* string filter passes every species whose display name contains it
get_species_by_display_substring(m, name, kwargs) ==
    LET kept(s) ==
            LET display_name == MetabDisplayName(m, s)
            IN  /\ ~(Has(kwargs, "name") /\ ~Contains(s.name, kwargs.name))
                /\ ~(Truthy(name) /\ IsStr(name)
                     /\ ~Contains(s.name, name) /\ ~Contains(display_name, name))
                /\ ~(Has(kwargs, "compartment") /\ ~Contains(s.compartment, kwargs.compartment))
                /\ ~(Has(kwargs, "type") /\ ~Contains(s.type, kwargs.type))
        data == SelectSeq(m.species, kept)
    IN  Ret(m, "", FALSE, IF data = <<>> THEN NoTable ELSE Table(data))

\* get_species(name, **kwargs): the rows of the table, None when there is none
get_species(m, name, kwargs) ==
    LET kept(s) ==
            LET display_name == MetabDisplayName(m, s)
            IN  /\ ~(Has(kwargs, "name") /\ ~Contains(s.name, kwargs.name))
                /\ ~(Truthy(name) /\ IsStr(name)
                     /\ ~Contains(s.name, name) /\ ~Contains(display_name, name))
                /\ ~(Truthy(name) /\ IsIterable(name)
                     /\ ~Contains(s.name, name) /\ ~Contains(name, display_name))
                /\ ~(Has(kwargs, "compartment") /\ ~Contains(s.compartment, kwargs.compartment))
                /\ ~(Has(kwargs, "type") /\ ~Contains(s.type, kwargs.type))
        data == SelectSeq(m.species, kept)
    IN  Ret(m, "", FALSE, IF data = <<>> THEN NoTable ELSE Table(data))

\* get_parameters(name, **kwargs)
get_parameters(m, name, kwargs) ==
    LET kept(p) ==
            LET display_name == ModelValueDisplayName(p)
            IN  /\ ~(Has(kwargs, "name")
                     /\ ~Contains(p.name, kwargs.name) /\ kwargs.name # display_name)
                /\ ~(Truthy(name) /\ ~Contains(p.name, name) /\ name # display_name)
        data == SelectSeq(m.parameters, kept)
    IN  Ret(m, "", FALSE, IF data = <<>> THEN NoTable ELSE Table(data))

\* get_events(name, **kwargs)
get_events(m, name, kwargs) ==
    LET kept(e) ==
            /\ ~(Has(kwargs, "name") /\ ~Contains(e.name, kwargs.name))
            /\ ~(Truthy(name) /\ ~Contains(e.name, name))
        shown(e) == [name |-> e.name,
                     trigger |-> _replace_cns_with_names(m, e.trigger)]
        data == SelectSeq(m.events, kept)
    IN  Ret(m, "", FALSE,
            IF data = <<>> THEN NoTable ELSE Table([i \in DOMAIN data |-> shown(data[i])]))

\* get_time_unit()
get_time_unit(m) == Ret(m, "", FALSE, m.time_unit)

\* set_time_unit(unit, **kwargs): unit is bound to the parameter, so kwargs
\* never holds it
set_time_unit(m, unit, kwargs) ==
    Ret(IF Has(kwargs, "unit") THEN [m EXCEPT !.time_unit = kwargs.unit] ELSE m,
        "", FALSE, None)

\* set_model_unit(**kwargs)
set_model_unit(m, kwargs) ==
    Ret(IF Has(kwargs, "time_unit") THEN [m EXCEPT !.time_unit = kwargs.time_unit] ELSE m,
        "", FALSE, None)

\* the names a table lists (its index), none for None
Listed(table) == {table.rows[i].name : i \in DOMAIN table.rows}

----------------------------------------------------------------------------
(* Bounds and inputs.                                                      *)

\* additions stop when the model holds this many elements
MaxElements == 2

\* the longest expression, in tokens
MaxTokens == 3

\* the names given to elements: one a substring of the other
Names == {<<"a">>, <<"a", "b">>}

\* the reaction schemes given to add_reaction
Schemes == {<<"a", " ", "-", ">">>}

\* the trigger given to add_event
Trigger == <<"T", "i", "m", "e", " ", ">", " ", "1">>

\* the time unit expressions
Units == {"s", "min"}

\* the tokens of the expressions: display names, operators, literals and keywords
ExprTokens ==
    {<<"a">>, TimeName, <<"+">>, <<"<", "=">>, <<"&", "&">>, <<"(">>, <<"1">>,
     <<"a", "n", "d">>}

TokenSeqs == UNION {[1..n -> ExprTokens] : n \in 1..MaxTokens}

\* the number of elements of a model
Size(m) ==
    Len(m.compartments) + Len(m.species) + Len(m.parameters)
    + Len(m.reactions) + Len(m.events) + Len(m.plots)

\* a call may add elements only to a model of fewer than MaxElements elements
WithinBounds(m, r) == Size(r.dm) > Size(m) => Size(m) < MaxElements

----------------------------------------------------------------------------
(* The models loaded at the start.                                         *)

Compartment(name) == [name |-> name, initial_size |-> "1.0"]

Species(name, compartment) ==
    [name |-> name, compartment |-> compartment, initial_concentration |-> "1.0",
     type |-> <<"r", "e", "a", "c", "t", "i", "o", "n", "s">>]

Reaction(name, mapped_to) ==
    [name |-> name, scheme |-> <<"a", " ", "-", ">">>,
     metabs |-> <<<<"Metabolite", <<"a">>, DefaultCompartment>>>>,
     params |-> <<[name |-> <<"k", "1">>, value |-> "0.1", mapped_to |-> mapped_to]>>]

\* a species of the same name in each of two compartments
TwoCompartments ==
    [EmptyModel EXCEPT
        !.compartments = <<Compartment(<<"a">>), Compartment(<<"a", "b">>)>>,
        !.species = <<Species(<<"a">>, <<"a">>), Species(<<"a">>, <<"a", "b">>)>>]

\* two reactions whose k1 is mapped to the same global parameter
SharedParameter ==
    [EmptyModel EXCEPT
        !.compartments = <<Compartment(DefaultCompartment)>>,
        !.species = <<Species(<<"a">>, DefaultCompartment)>>,
        !.parameters = <<[name |-> <<"a">>, initial_value |-> "1.0"]>>,
        !.reactions = <<Reaction(<<"a">>, <<"a">>), Reaction(<<"a", "b">>, <<"a">>)>>]

\* a reaction with a mapped k1 beside one with a local k1
MixedParameters ==
    [SharedParameter EXCEPT
        !.reactions = <<Reaction(<<"a">>, <<"a">>), Reaction(<<"a", "b">>, None)>>]

LoadedModels == {EmptyModel, TwoCompartments, SharedParameter, MixedParameters}

----------------------------------------------------------------------------
(* The accessors as actions on the current model.                          *)

Idle == [op |-> "none", name |-> None, kwargs |-> NoKwargs,
         raised |-> "", warned |-> FALSE, result |-> None]

translator == <<expression, spaced, cns, names, pc>>

\* a call of op(name, **kwargs) that left r
Call(op, name, kwargs, r) ==
    /\ last.op = "none"
    /\ WithinBounds(dm, r)
    /\ dm' = r.dm
    /\ last' = [op |-> op, name |-> name, kwargs |-> kwargs,
                raised |-> r.raised, warned |-> r.warned, result |-> r.result]
    /\ UNCHANGED <<translator, reshaper>>

AddCompartment ==
    \E n \in Names : Call("add_compartment", n, NoKwargs, add_compartment(dm, n, "1.0", NoKwargs))

AddSpecies ==
    \E n \in Names, c \in Names \cup {<<>>} :
        Call("add_species", n, [compartment_name |-> c],
             add_species(dm, n, c, "1.0", NoKwargs))

AddParameter ==
    \E n \in Names : Call("add_parameter", n, NoKwargs, add_parameter(dm, n, "1.0", NoKwargs))

AddEvent ==
    \E n \in Names : Call("add_event", n, NoKwargs, add_event(dm, n, Trigger, <<>>))

AddReaction ==
    \E n \in Names, scheme \in Schemes :
        Call("add_reaction", n, [scheme |-> scheme], add_reaction(dm, n, scheme, NoKwargs))

AddPlot ==
    \E n \in Names : Call("add_plot", n, NoKwargs, add_plot(dm, n, NoKwargs))

SetCompartment ==
    \E n \in Names \cup {None}, kwargs \in {[initial_size |-> "2.0"]} :
        Call("set_compartment", n, kwargs, set_compartment(dm, n, kwargs))

SetSpecies ==
    \E n \in Names \cup {None}, kwargs \in {[initial_concentration |-> "2.0"]} :
        Call("set_species", n, kwargs, set_species(dm, n, kwargs))

SetParameters ==
    \E n \in Names \cup {None}, kwargs \in {[initial_value |-> "2.0"]} :
        Call("set_parameters", n, kwargs, set_parameters(dm, n, kwargs))

SetReactionParameters ==
    \E n \in {None, <<"k", "1">>, <<"(", "a", ")", ".", "k", "1">>},
       kwargs \in {[value |-> "2.0"]}
                  \cup {[value |-> "2.0", reaction_name |-> r] : r \in Names} :
        Call("set_reaction_parameters", n, kwargs, set_reaction_parameters(dm, n, kwargs))

GetReactionParameters ==
    \E kwargs \in {NoKwargs} \cup {[reaction_name |-> r] : r \in Names} :
        Call("get_reaction_parameters", None, kwargs,
             get_reaction_parameters(dm, None, kwargs))

RemoveSpecies == \E n \in Names : Call("remove_species", n, NoKwargs, remove_species(dm, n))

RemoveParameter == \E n \in Names : Call("remove_parameter", n, NoKwargs, remove_parameter(dm, n))

RemoveCompartment ==
    \E n \in Names : Call("remove_compartment", n, NoKwargs, remove_compartment(dm, n))

RemoveEvent == \E n \in Names : Call("remove_event", n, NoKwargs, remove_event(dm, n))

RemovePlot == \E n \in Names : Call("remove_plot", n, NoKwargs, remove_plot(dm, n))

RemoveReaction == \E n \in Names : Call("remove_reaction", n, NoKwargs, remove_reaction(dm, n))

SetTimeUnit ==
    \E u \in Units, kwargs \in {NoKwargs, [model |-> "dm"]} :
        Call("set_time_unit", u, kwargs, set_time_unit(dm, u, kwargs))

SetModelUnit ==
    \E u \in Units :
        Call("set_model_unit", None, [time_unit |-> u], set_model_unit(dm, [time_unit |-> u]))

\* the filters given to get_species: names, a display name, a part of one
SpeciesFilters ==
    Names \cup {None, <<"b">>, <<"a", "{", "a", "b", "}">>}

SpeciesKwargs ==
    {NoKwargs, [compartment |-> <<"b">>], [type |-> <<"r", "e", "a", "c">>],
     [type |-> <<"f", "i", "x", "e", "d">>]}

GetSpecies ==
    \E n \in SpeciesFilters, kwargs \in SpeciesKwargs :
        Call("get_species", n, kwargs, get_species(dm, n, kwargs))

GetTimeUnit == Call("get_time_unit", None, NoKwargs, get_time_unit(dm))

\* the call has returned: the script goes on to its next call
Return ==
    /\ last.op # "none"
    /\ last' = Idle
    /\ UNCHANGED <<dm, translator, reshaper>>

Init ==
    /\ dm \in LoadedModels
    /\ last = Idle
    /\ expression = <<>> /\ spaced = TRUE /\ cns = <<>> /\ names = <<>> /\ pc = "idle"
    /\ time_course = <<>> /\ ranges = <<>> /\ grid = <<>> /\ frames = <<>>

Next ==
    \/ AddCompartment \/ AddSpecies \/ AddParameter \/ AddEvent \/ AddReaction \/ AddPlot
    \/ SetCompartment \/ SetSpecies \/ SetParameters \/ SetReactionParameters
    \/ GetReactionParameters \/ GetSpecies
    \/ RemoveSpecies \/ RemoveParameter \/ RemoveCompartment \/ RemoveEvent
    \/ RemovePlot \/ RemoveReaction
    \/ SetTimeUnit \/ SetModelUnit \/ GetTimeUnit
    \/ Return

Spec == Init /\ [][Next]_vars

----------------------------------------------------------------------------
(* The translator on its own: an expression goes through                   *)
(* _replace_names_with_cns and the result through _replace_cns_with_names, *)
(* as an expression does that is set and read back.                        *)

\* the expression made of the tokens: one space between them, or none
ExpressionOf(tokens, with_spaces) ==
    IF with_spaces THEN Join(tokens) ELSE Concat(tokens)

ReplaceNamesWithCns ==
    /\ pc = "start"
    /\ cns' = _replace_names_with_cns(dm, expression)
    /\ pc' = "cns"
    /\ UNCHANGED <<dm, last, expression, spaced, names, reshaper>>

ReplaceCnsWithNames ==
    /\ pc = "cns"
    /\ names' = _replace_cns_with_names(dm, cns)
    /\ pc' = "done"
    /\ UNCHANGED <<dm, last, expression, spaced, cns, reshaper>>

InitExpr ==
    /\ dm \in LoadedModels
    /\ last = Idle
    /\ spaced \in BOOLEAN
    /\ expression \in {ExpressionOf(tokens, spaced) : tokens \in TokenSeqs}
    /\ cns = <<>> /\ names = <<>> /\ pc = "start"
    /\ time_course = <<>> /\ ranges = <<>> /\ grid = <<>> /\ frames = <<>>

NextExpr == ReplaceNamesWithCns \/ ReplaceCnsWithNames

SpecExpr == InitExpr /\ [][NextExpr]_vars

----------------------------------------------------------------------------
(* The plots on their own: plots are added and removed and their curves    *)
(* are set.                                                                *)

\* the curves given to set_plot_curves: named and unnamed ones, with channels
\* that resolve ('Time', 'a' in a model with one species a) and one that
\* does not
CurveX == [name |-> <<"x">>, channels |-> <<TimeName, <<"a">>>>]
CurveY == [name |-> <<"y">>, type |-> "histoItem1d", channels |-> <<<<"z">>>>]
CurveUnnamed == [channels |-> <<TimeName>>]
CurveNamedAsDefault == [name |-> DefaultCurveName(1)]

CurveLists ==
    {<<>>, <<CurveX>>, <<CurveX, CurveY>>, <<CurveY, CurveX>>, <<CurveX, CurveX>>,
     <<CurveUnnamed, CurveUnnamed>>, <<CurveNamedAsDefault, CurveUnnamed>>}

SetPlotCurves ==
    \E n \in Names, curves \in CurveLists :
        Call("set_plot_curves", n, [curves |-> curves], set_plot_curves(dm, n, curves))

\* the models loaded, some with a plot
PlottedModels ==
    LoadedModels \cup {add_plot(m, n, NoKwargs).dm : m \in LoadedModels, n \in Names}

InitPlots ==
    /\ dm \in PlottedModels
    /\ last = Idle
    /\ expression = <<>> /\ spaced = TRUE /\ cns = <<>> /\ names = <<>> /\ pc = "idle"
    /\ time_course = <<>> /\ ranges = <<>> /\ grid = <<>> /\ frames = <<>>

NextPlots == AddPlot \/ SetPlotCurves \/ RemovePlot \/ Return

SpecPlots == InitPlots /\ [][NextPlots]_vars

----------------------------------------------------------------------------
(* Compartments and species on their own, in models that are loaded with   *)
(* some already.                                                           *)

\* the most elements of a model that compartments and species are added to
MaxLoaded == 6

\* a call that leaves no more than MaxLoaded elements
CallLoaded(op, name, kwargs, r) ==
    /\ last.op = "none"
    /\ Size(r.dm) <= MaxLoaded
    /\ dm' = r.dm
    /\ last' = [op |-> op, name |-> name, kwargs |-> kwargs,
                raised |-> r.raised, warned |-> r.warned, result |-> r.result]
    /\ UNCHANGED <<translator, reshaper>>

AddCompartmentToLoaded ==
    \E n \in Names :
        CallLoaded("add_compartment", n, NoKwargs, add_compartment(dm, n, "1.0", NoKwargs))

AddSpeciesToLoaded ==
    \E n \in Names, c \in Names \cup {<<>>} :
        CallLoaded("add_species", n, [compartment_name |-> c],
                   add_species(dm, n, c, "1.0", NoKwargs))

InitSpecies ==
    /\ dm \in LoadedModels
    /\ last = Idle
    /\ expression = <<>> /\ spaced = TRUE /\ cns = <<>> /\ names = <<>> /\ pc = "idle"
    /\ time_course = <<>> /\ ranges = <<>> /\ grid = <<>> /\ frames = <<>>

NextSpecies ==
    \/ AddCompartmentToLoaded \/ AddSpeciesToLoaded
    \/ RemoveCompartment \/ RemoveSpecies
    \/ Return

SpecSpecies == InitSpecies /\ [][NextSpecies]_vars

----------------------------------------------------------------------------
(* The reshaper of compartment_array_tools: the compartments of the model  *)
(* are named 'prefix[x,y]', the columns of the time-course table            *)
(* 'species{compartment}'; a row of the table is a function from the        *)
(* column names to the values.                                              *)

\* int(s) for a string of digits
DigitValue(ch) == CHOOSE d \in 0..9 : Digits[d + 1] = ch

RECURSIVE ParseIntFrom(_, _, _)
ParseIntFrom(s, i, acc) ==
    IF i > Len(s) THEN acc ELSE ParseIntFrom(s, i + 1, acc * 10 + DigitValue(s[i]))

ParseInt(s) == ParseIntFrom(s, 1, 0)

\* '{0}'.format(n)
RECURSIVE FormatInt(_)
FormatInt(n) ==
    IF n < 10 THEN <<Digits[n + 1]>>
    ELSE FormatInt(n \div 10) \o <<Digits[(n % 10) + 1]>>

\* s.rfind(ch): 0-based, -1 when there is none
RECURSIVE RFindFrom(_, _, _)
RFindFrom(s, ch, pos) ==
    IF pos < 0 THEN -1
    ELSE IF s[pos + 1] = ch THEN pos ELSE RFindFrom(s, ch, pos - 1)

RFind(s, ch) == RFindFrom(s, ch, Len(s) - 1)

\* if v not in seq: seq.append(v)
AppendNew(seq, v) ==
    IF \E i \in DOMAIN seq : seq[i] = v THEN seq ELSE Append(seq, v)

\* the loop of _split_ranges from name i on
RECURSIVE SplitRangesFrom(_, _, _, _, _)
SplitRangesFrom(compartment_names, i, x_indices, y_indices, prefixes) ==
    IF i > Len(compartment_names)
    THEN [x_indices |-> x_indices, y_indices |-> y_indices, prefixes |-> prefixes]
    ELSE LET name == compartment_names[i]
             first == Find(name, "[", 0)
             last_bracket == RFind(name, "]")
             prefix == Slice(name, 0, first)
             coords == Slice(name, first + 1, last_bracket)
             comma == Find(coords, ",", 0)
             x == ParseInt(Slice(coords, 0, comma))
             y == ParseInt(Slice(coords, comma + 1, Len(coords)))
         IN  SplitRangesFrom(compartment_names, i + 1, AppendNew(x_indices, x),
                             AppendNew(y_indices, y), AppendNew(prefixes, prefix))

_split_ranges(compartment_names) == SplitRangesFrom(compartment_names, 1, <<>>, <<>>, <<>>)

\* an _extract_metabolite_data that asks for the column of [y,x]
_extract_metabolite_data_swapped(cur, metab, prefix, x_range, y_range) ==
    [x \in 1..Len(x_range) |->
        [y \in 1..Len(y_range) |->
            LET metab_name == metab \o <<"{">> \o prefix \o <<"[">> \o FormatInt(y_range[y])
                              \o <<",">> \o FormatInt(x_range[x]) \o <<"]", "}">>
            IN  IF metab_name \in DOMAIN cur
                THEN cur[metab_name]
                ELSE [nan |-> TRUE, row |-> 0, column |-> <<>>]]]

\* np.nan, and the value of a column in a row of the table
NaN == [nan |-> TRUE, row |-> 0, column |-> <<>>]
Value(i, column) == [nan |-> FALSE, row |-> i, column |-> column]

_extract_metabolite_data(cur, metab, prefix, x_range, y_range) ==
    [x \in 1..Len(x_range) |->
        [y \in 1..Len(y_range) |->
            LET metab_name == metab \o <<"{">> \o prefix \o <<"[">> \o FormatInt(x_range[x])
                              \o <<",">> \o FormatInt(y_range[y]) \o <<"]", "}">>
            IN  IF metab_name \in DOMAIN cur THEN cur[metab_name] ELSE NaN]]

\* [c.getObjectName() for c in mod.getCompartments()]
CompartmentNames(m) == [i \in DOMAIN m.compartments |-> m.compartments[i].name]

\* the species names of the tables, in sorted order
SortedMetabs == <<<<"s">>, <<"t">>>>

\* sorted([col[:col.find('{')] for col in data.columns if '{' + names[0] + '}' in col])
MetabNames(table, compartment_names) ==
    SelectSeq(SortedMetabs,
              LAMBDA metab :
                 \E col \in DOMAIN table.rows[1] :
                    /\ Contains(col, <<"{">> \o compartment_names[1] \o <<"}">>)
                    /\ Slice(col, 0, Find(col, "{", 0)) = metab)

\* the most compartments of a model that is reshaped, and the most rows of a
\* time-course table
MaxCompartments == 3
MaxRows == 3

\* the name of the compartment at (x, y) of the array called prefix
ArrayName(prefix, x, y) ==
    prefix \o <<"[">> \o FormatInt(x) \o <<",">> \o FormatInt(y) \o <<"]">>

ArrayNames ==
    {ArrayName(<<"p">>, 0, 0), ArrayName(<<"p">>, 0, 1), ArrayName(<<"p">>, 1, 0),
     ArrayName(<<"p">>, 10, 1), ArrayName(<<"q">>, 0, 0)}

\* the models of compartment arrays: their compartments in any order
ArrayModels ==
    {[EmptyModel EXCEPT !.compartments = [i \in DOMAIN cs |-> Compartment(cs[i])]] :
        cs \in {c \in UNION {[1..n -> ArrayNames] : n \in 1..MaxCompartments} :
                   \A i, j \in DOMAIN c : i # j => c[i] # c[j]}}

\* the times of the rows
Times == <<"0.0", "0.5", "1.0", "1.5", "2.0">>

\* the time-course table of n rows for the species metabs in the compartments
\* of m, without the columns of the compartment called missing
TimeCourse(m, n, metabs, missing) ==
    LET columns == {metab \o <<"{">> \o c \o <<"}">> :
                       metab \in metabs,
                       c \in {m.compartments[i].name : i \in DOMAIN m.compartments} \ {missing}}
    IN  [time |-> SubSeq(Times, 1, n),
         rows |-> [i \in 1..n |-> [column \in columns |-> Value(i, column)]]]

NoRanges == [x_indices |-> <<>>, y_indices |-> <<>>, prefixes |-> <<>>]
NoGrid == [row |-> 0, metab |-> <<>>, prefix |-> <<>>, arr |-> <<>>]

\* whether a grid has a cell without a value
HasNaN(arr) == \E x \in DOMAIN arr : \E y \in DOMAIN arr[x] : arr[x][y].nan

\* _split_ranges(names), as plot_rectangular_time_course calls it
SplitRanges ==
    /\ pc = "loaded"
    /\ ranges' = _split_ranges(CompartmentNames(dm))
    /\ pc' = "split"
    /\ UNCHANGED <<dm, last, expression, spaced, cns, names, time_course, grid, frames>>

\* _extract_metabolite_data for a row, a species and a prefix
ExtractMetaboliteData ==
    /\ pc = "split"
    /\ \E i \in DOMAIN time_course.rows, metab \in {<<"s">>, <<"t">>},
          k \in DOMAIN ranges.prefixes :
          grid' = [row |-> i, metab |-> metab, prefix |-> ranges.prefixes[k],
                   arr |-> _extract_metabolite_data(time_course.rows[i], metab,
                                                    ranges.prefixes[k],
                                                    ranges.x_indices, ranges.y_indices)]
    /\ UNCHANGED <<dm, last, expression, spaced, cns, names, pc, time_course, ranges, frames>>

\* the grids a frame of an animation is made of, for row i of the table
MeshData(r, i) ==
    <<_extract_metabolite_data(time_course.rows[i],
                               MetabNames(time_course, CompartmentNames(dm))[1],
                               r.prefixes[1], r.x_indices, r.y_indices)>>

ImageData(r, i) ==
    [k \in DOMAIN MetabNames(time_course, CompartmentNames(dm)) |->
        _extract_metabolite_data(time_course.rows[i],
                                 MetabNames(time_course, CompartmentNames(dm))[k],
                                 r.prefixes[1], r.x_indices, r.y_indices)]

\* animate_rectangular_time_course(data, dm) up to the FuncAnimation; with no
\* column for the first compartment metab_names[0] raises IndexError
AnimateRectangularTimeCourse ==
    /\ pc = "loaded"
    /\ ranges' = _split_ranges(CompartmentNames(dm))
    /\ frames' = <<>>
    /\ pc' = IF MetabNames(time_course, CompartmentNames(dm)) = <<>> THEN "raised" ELSE "mesh"
    /\ UNCHANGED <<dm, last, expression, spaced, cns, names, time_course, grid>>

\* animate_rectangular_time_course_as_image(data, dm) up to the FuncAnimation;
\* _create_image raises ValueError for a cell that is NaN
AnimateRectangularTimeCourseAsImage ==
    /\ pc = "loaded"
    /\ ranges' = _split_ranges(CompartmentNames(dm))
    /\ frames' = <<>>
    /\ pc' = IF \E k \in DOMAIN ImageData(_split_ranges(CompartmentNames(dm)), 1) :
                    HasNaN(ImageData(_split_ranges(CompartmentNames(dm)), 1)[k])
             THEN "raised" ELSE "image"
    /\ UNCHANGED <<dm, last, expression, spaced, cns, names, time_course, grid>>

\* FuncAnimation(fig, _plot_ith_set, frames=len(time) - 1): the frames are
\* range(len(time) - 1)
NumFrames == Len(time_course.time) - 1

\* _plot_ith_set(i) of animate_rectangular_time_course, for the next frame
PlotIthSet ==
    /\ pc = "mesh"
    /\ Len(frames) < NumFrames
    /\ LET i == Len(frames)
       IN  frames' = Append(frames, [shown |-> MeshData(ranges, i + 1),
                                     time |-> time_course.time[i + 1]])
    /\ UNCHANGED <<dm, last, expression, spaced, cns, names, pc, time_course, ranges, grid>>

\* _plot_ith_set(time_index) of animate_rectangular_time_course_as_image
PlotIthSetAsImage ==
    /\ pc = "image"
    /\ Len(frames) < NumFrames
    /\ LET time_index == Len(frames)
       IN  IF \E k \in DOMAIN ImageData(ranges, time_index + 1) :
                 HasNaN(ImageData(ranges, time_index + 1)[k])
           THEN pc' = "raised" /\ frames' = frames
           ELSE /\ pc' = pc
                /\ frames' = Append(frames, [shown |-> ImageData(ranges, time_index + 1),
                                             time |-> time_course.time[time_index + 1]])
    /\ UNCHANGED <<dm, last, expression, spaced, cns, names, time_course, ranges, grid>>

\* the animation has shown its frames
Played ==
    /\ pc \in {"mesh", "image"}
    /\ Len(frames) = NumFrames
    /\ pc' = "played"
    /\ UNCHANGED <<dm, last, expression, spaced, cns, names, time_course, ranges, grid, frames>>

InitReshaper ==
    /\ dm \in ArrayModels
    /\ last = Idle
    /\ expression = <<>> /\ spaced = TRUE /\ cns = <<>> /\ names = <<>> /\ pc = "loaded"
    /\ time_course \in {TimeCourse(dm, n, metabs, missing) :
                           n \in 1..MaxRows, metabs \in {{<<"s">>}, {<<"s">>, <<"t">>}},
                           missing \in ArrayNames \cup {<<>>}}
    /\ ranges = NoRanges /\ grid = NoGrid /\ frames = <<>>

NextReshaper ==
    \/ SplitRanges \/ ExtractMetaboliteData
    \/ AnimateRectangularTimeCourse \/ AnimateRectangularTimeCourseAsImage
    \/ PlotIthSet \/ PlotIthSetAsImage \/ Played

SpecReshaper == InitReshaper /\ [][NextReshaper]_vars

----------------------------------------------------------------------------
(* Properties of the accessors.  A step that makes a call leaves the call  *)
(* in last', so a property of a call relates dm, dm' and last'.            *)

\* the elements an accessor of that name works on
KindOf(m, op) ==
    CASE op \in {"add_compartment", "remove_compartment", "set_compartment"} -> m.compartments
      [] op \in {"add_species", "remove_species", "set_species"} -> m.species
      [] op \in {"add_parameter", "remove_parameter", "set_parameters"} -> m.parameters
      [] op \in {"add_event", "remove_event"} -> m.events
      [] op \in {"add_reaction", "remove_reaction"} -> m.reactions
      [] op \in {"add_plot", "remove_plot"} -> m.plots

\* C1: remove_reaction(name) deletes the named reaction: when a reaction of that
\* name exists before the call, none exists after it, and the events are as
\* they were.
C1_RemoveReactionDeletes ==
    [][(last'.op = "remove_reaction" /\ FirstIndex(dm.reactions, last'.name) # 0)
         => (FirstIndex(dm'.reactions, last'.name) = 0 /\ dm'.events = dm.events)]_vars

\* C2: after set_time_unit(u), with or without an explicit model, get_time_unit()
\* returns u.
C2_SetTimeUnitSets ==
    last.op = "set_time_unit" => get_time_unit(dm).result = last.name

\* C3: a setter given the string s applies the requested property to every
\* element of its kind whose name contains s.
C3_SetterReachesSubstrings ==
    /\ (last.op = "set_compartment" /\ last.name # None)
         => \A i \in DOMAIN dm.compartments :
               Contains(dm.compartments[i].name, last.name)
                  => dm.compartments[i].initial_size = last.kwargs.initial_size
    /\ (last.op = "set_species" /\ last.name # None)
         => \A i \in DOMAIN dm.species :
               Contains(dm.species[i].name, last.name)
                  => dm.species[i].initial_concentration = last.kwargs.initial_concentration
    /\ (last.op = "set_parameters" /\ last.name # None)
         => \A i \in DOMAIN dm.parameters :
               Contains(dm.parameters[i].name, last.name)
                  => dm.parameters[i].initial_value = last.kwargs.initial_value
    /\ (last.op = "set_reaction_parameters" /\ last.name # None)
         => LET shown == get_reaction_parameters(
                             dm, None,
                             IF Has(last.kwargs, "reaction_name")
                             THEN [reaction_name |-> last.kwargs.reaction_name]
                             ELSE NoKwargs).result.rows
            IN  \A i \in DOMAIN shown :
                   Contains(shown[i].name, last.name) => shown[i].value = last.kwargs.value

\* C4: add_compartment, add_parameter, add_event and add_reaction given a name
\* that is taken raise ValueError and leave the model as it was.
C4_AddExistingRaises ==
    [][(/\ last'.op \in {"add_compartment", "add_parameter", "add_event", "add_reaction"}
        /\ FirstIndex(KindOf(dm, last'.op), last'.name) # 0)
         => (last'.raised = "ValueError" /\ dm' = dm)]_vars

\* an add call found its name taken
C4_Witness ==
    /\ last.op \in {"add_compartment", "add_parameter", "add_event", "add_reaction"}
    /\ last.raised = "ValueError"
    /\ FirstIndex(KindOf(dm, last.op), last.name) # 0

RemoveOps ==
    {"remove_species", "remove_parameter", "remove_compartment", "remove_event",
     "remove_reaction", "remove_plot"}

\* C5: a remove call whose name matches no element of its kind logs a warning
\* and returns: no exception, and every collection of the model is as it was.
C5_RemoveMissingWarns ==
    [][(last'.op \in RemoveOps /\ FirstIndex(KindOf(dm, last'.op), last'.name) = 0)
         => (/\ last'.warned /\ last'.raised = ""
             /\ dm'.compartments = dm.compartments /\ dm'.species = dm.species
             /\ dm'.parameters = dm.parameters /\ dm'.reactions = dm.reactions
             /\ dm'.events = dm.events /\ dm'.plots = dm.plots)]_vars

\* a remove call found no element of its name, in a model that has elements of
\* that kind
C5_Witness ==
    /\ last.op \in RemoveOps /\ last.warned
    /\ KindOf(dm, last.op) # <<>>
    /\ FirstIndex(KindOf(dm, last.op), last.name) = 0

\* what the getter of the kind lists
ListedBy(m, op) ==
    CASE op = "remove_species" -> Listed(get_species(m, None, NoKwargs).result)
      [] op = "remove_parameter" -> Listed(get_parameters(m, None, NoKwargs).result)
      [] op = "remove_event" -> Listed(get_events(m, None, NoKwargs).result)

ShownFor(m, r) == get_reaction_parameters(m, None, [reaction_name |-> r]).result.rows

ChangedGlobals(m, call) ==
    {row.mapped_to : row \in
        {ShownFor(m, call.kwargs.reaction_name)[j] :
            j \in {k \in DOMAIN ShownFor(m, call.kwargs.reaction_name) :
                      /\ ShownFor(m, call.kwargs.reaction_name)[k].type = "global"
                      /\ Truthy(call.name) =>
                            /\ Contains(ShownFor(m, call.kwargs.reaction_name)[k].name, call.name)
                            /\ Contains(call.name, ShownFor(m, call.kwargs.reaction_name)[k].name)}}}

C10_ReactionNameIsSubstring ==
    (last.op = "get_reaction_parameters" /\ Has(last.kwargs, "reaction_name"))
       => {last.result.rows[j].reaction : j \in DOMAIN last.result.rows}
             = {dm.reactions[i].name : i \in
                   {k \in DOMAIN dm.reactions :
                       /\ Contains(dm.reactions[k].name, last.kwargs.reaction_name)
                       /\ dm.reactions[k].params # <<>>}}

\* C7: an expression of tokens separated by single spaces (display names,
\* operators, literals and keywords) comes back from the two translations as
\* it went in.
C7_RoundTrip ==
    (pc = "done" /\ spaced) => names = expression

\* the lexemes of an expression: the operator characters, each on its own,
\* and the runs of other characters between them and the spaces
RECURSIVE LexFrom(_, _, _)
LexFrom(e, i, cur) ==
    LET flushed == IF cur = <<>> THEN <<>> ELSE <<cur>>
    IN  IF i > Len(e) THEN flushed
        ELSE IF e[i] = " " THEN flushed \o LexFrom(e, i + 1, <<>>)
        ELSE IF e[i] \in OpChars THEN flushed \o <<<<e[i]>>>> \o LexFrom(e, i + 1, <<>>)
        ELSE LexFrom(e, i + 1, Append(cur, e[i]))

Lex(e) == LexFrom(e, 1, <<>>)

\* the units of an expression with every display name among them replaced
Replaced(m, units) ==
    [i \in DOMAIN units |->
        IF findObjectByDisplayName(m, units[i]) # None
        THEN <<"<">> \o ObjectCN(findObjectByDisplayName(m, units[i])) \o <<">">>
        ELSE units[i]]

SpeciesPassing(m, filter, kwargs) ==
    SelectSeq(m.species,
              LAMBDA s :
                 /\ Contains(s.name, filter) \/ MetabDisplayName(m, s) = filter
                 /\ Has(kwargs, "compartment") => Contains(s.compartment, kwargs.compartment)
                 /\ Has(kwargs, "type") => Contains(s.type, kwargs.type))

EntryName(curves, j) ==
    IF Has(curves[j], "name") THEN curves[j].name ELSE DefaultCurveName(j - 1)

\* the channels of an entry that name an object of the model
Resolving(m, curve) ==
    IF ~Has(curve, "channels") THEN {}
    ELSE {k \in DOMAIN curve.channels :
             \E o \in Objects(m) : ObjectDisplayName(m, o) = curve.channels[k]}

\* the curves after are those of the first n entries of curves
CurvesOfEntries(m, after, curves, n) ==
    /\ Len(after) = n
    /\ \A j \in 1..n :
          /\ after[j].name = EntryName(curves, j)
          /\ Len(after[j].channels) = Cardinality(Resolving(m, curves[j]))

\* a warning is logged exactly when a channel of the first n entries does
\* not resolve
WarnedForEntries(m, warned, curves, n) ==
    warned <=> \E j \in 1..n :
                  /\ Has(curves[j], "channels")
                  /\ Cardinality(Resolving(m, curves[j])) < Len(curves[j].channels)

FirstRepeated(curves) ==
    LET repeated == {j \in DOMAIN curves :
                        \E k \in 1..(j - 1) : EntryName(curves, k) = EntryName(curves, j)}
    IN  IF repeated = {} THEN 0
        ELSE CHOOSE j \in repeated : \A k \in repeated : j <= k

C13_DefaultCompartment ==
    [][(last'.op = "add_species")
         => LET given == last'.kwargs.compartment_name
                before == IF given = <<>> /\ dm.compartments = <<>>
                          THEN <<[name |-> DefaultCompartment, initial_size |-> "1.0"]>>
                          ELSE dm.compartments
                target == IF given = <<>> THEN before[1].name ELSE given
                taken == \E i \in DOMAIN dm.species :
                            /\ dm.species[i].name = last'.name
                            /\ dm.species[i].compartment = target
            IN  /\ dm'.compartments = before
                /\ last'.raised = "" <=> (~taken /\ FirstIndex(before, target) # 0)
                /\ last'.raised = ""
                      => /\ Len(dm'.species) = Len(dm.species) + 1
                         /\ SubSeq(dm'.species, 1, Len(dm.species)) = dm.species
                         /\ dm'.species[Len(dm'.species)].name = last'.name
                         /\ dm'.species[Len(dm'.species)].compartment = target
                /\ last'.raised # "" => dm'.species = dm.species]_vars

\* a species was added without a compartment_name to a model of several
\* compartments and is in the first
C13_Witness ==
    /\ last.op = "add_species" /\ last.raised = ""
    /\ last.kwargs.compartment_name = <<>>
    /\ Len(dm.compartments) > 1
    /\ dm.species[Len(dm.species)].compartment = dm.compartments[1].name
    /\ dm.species[Len(dm.species)].name = last.name

\* the prefix and the indices a compartment name is made of
CoordinatesOf(name) ==
    CHOOSE c \in {<<"p">>, <<"q">>} \X (0..10) \X (0..1) : ArrayName(c[1], c[2], c[3]) = name

\* where a value occurs first among the compartment names: k = 2 for the x
\* indices, 3 for the y indices, 1 for the prefixes
FirstOccurrence(m, k, v) ==
    CHOOSE i \in DOMAIN m.compartments :
        /\ CoordinatesOf(m.compartments[i].name)[k] = v
        /\ \A j \in 1..(i - 1) : CoordinatesOf(m.compartments[j].name)[k] # v

\* found holds each of the values at place k of the names once, in the order
\* of their first occurrence
OnceInOrder(m, k, found) ==
    /\ {found[i] : i \in DOMAIN found}
          = {CoordinatesOf(m.compartments[i].name)[k] : i \in DOMAIN m.compartments}
    /\ \A i, j \in DOMAIN found :
          i < j => FirstOccurrence(m, k, found[i]) < FirstOccurrence(m, k, found[j])

\* C14: the grid of a species for a row of the table has one cell for each
\* pair of an x and a y index parsed from the compartment names; the cell of
\* (x, y) holds the row's value of column 's{prefix[x,y]}', NaN when the table
\* has no such column; and _split_ranges returns each x index, y index and
\* prefix once, in the order of first occurrence.
C14_GridOfSpecies ==
    /\ pc # "loaded"
          => /\ OnceInOrder(dm, 2, ranges.x_indices)
             /\ OnceInOrder(dm, 3, ranges.y_indices)
             /\ OnceInOrder(dm, 1, ranges.prefixes)
    /\ grid.row # 0
          => /\ Len(grid.arr) = Len(ranges.x_indices)
             /\ \A x \in DOMAIN grid.arr :
                   /\ Len(grid.arr[x]) = Len(ranges.y_indices)
                   /\ \A y \in DOMAIN grid.arr[x] :
                         LET column == grid.metab \o <<"{">>
                                       \o ArrayName(grid.prefix, ranges.x_indices[x],
                                                    ranges.y_indices[y])
                                       \o <<"}">>
                             cur == time_course.rows[grid.row]
                         IN  grid.arr[x][y] = IF column \in DOMAIN cur THEN cur[column]
                                              ELSE NaN

\* a grid of several columns was extracted from a row after the first, with
\* a cell that has a value and one that is NaN, among them an index of two
\* digits
C14_Witness ==
    /\ grid.row > 1
    /\ Len(ranges.x_indices) > 1 /\ Len(ranges.y_indices) > 1
    /\ \E i \in DOMAIN ranges.x_indices : ranges.x_indices[i] = 10
    /\ HasNaN(grid.arr)
    /\ \E x \in DOMAIN grid.arr : \E y \in DOMAIN grid.arr[x] : ~grid.arr[x][y].nan

\* C15: an animation that has played has shown every row of the table: it
\* has as many frames as the table has rows, frame i shows the grid and the
\* time of row i, and some frame shows the last row.
C15_EveryRowRendered ==
    pc = "played"
       => /\ Len(frames) = Len(time_course.rows)
          /\ \A i \in DOMAIN frames :
                /\ frames[i].time = time_course.time[i]
                /\ \A k \in DOMAIN frames[i].shown :
                      \A x \in DOMAIN frames[i].shown[k] :
                         \A y \in DOMAIN frames[i].shown[k][x] :
                            ~frames[i].shown[k][x][y].nan => frames[i].shown[k][x][y].row = i
          /\ \E i \in DOMAIN frames :
                frames[i].time = time_course.time[Len(time_course.time)]

====
